---- MODULE Spec2Model ----
(***************************************************************************)
(* Model of browser.py: one DuckDuckGo search, scraped, filtered to an     *)
(* allow-list of sites and printed.                                        *)
(*                                                                         *)
(* Python strings are TLA+ strings; s[i:j] is SubSeq, + is \o.  Positions  *)
(* are 1-based here, and a failed find() is 0 (Python: 0-based and -1).    *)
(* The HTML body is modelled after BeautifulSoup has built the tree: a     *)
(* sequence of anchor elements in document order.  Logging is left out:    *)
(* it writes to the log stream only.                                       *)
(***************************************************************************)
EXTENDS Integers, Sequences, FiniteSets, TLC

VARIABLES
    pc,            \* position in main(): parse_args, search, parse, branch, display, exited
    argv,          \* the command line after the program name
    server,        \* what the network will answer: transport outcome, status, body
    search_term,   \* args.search_term once parse_args has returned
    requests,      \* URLs of the HTTP GETs issued so far
    status_code,   \* response.status_code, 0 before any response
    html,          \* the body handed to parse_results
    parsed,        \* parse_results has been entered
    results,       \* list of (title, link) returned by parse_results
    idx,           \* number of iterations display_results has completed
    urlparse_args, \* the strings handed to remove_parameters_and_decode so far
    stdout,        \* lines written to standard output
    exit_status    \* process exit status, -1 while running

vars == <<pc, argv, server, search_term, requests, status_code, html, parsed,
          results, idx, urlparse_args, stdout, exit_status>>

----------------------------------------------------------------------------
(* Bounds *)

MaxAnchors == 3

----------------------------------------------------------------------------
(* Python str primitives *)

Char(s, i) == SubSeq(s, i, i)

\* s[i:] with a 1-based i
From(s, i) == SubSeq(s, i, Len(s))

\* sub in s
Contains(s, sub) ==
    \E i \in 1..(Len(s) - Len(sub) + 1) : SubSeq(s, i, i + Len(sub) - 1) = sub

\* s.startswith(p)
StartsWith(s, p) == Len(p) <= Len(s) /\ SubSeq(s, 1, Len(p)) = p

\* s.find(c, start): least position >= start where c occurs, 0 if none
Find(s, c, start) ==
    LET hits == {i \in start..(Len(s) - Len(c) + 1) : SubSeq(s, i, i + Len(c) - 1) = c}
    IN  IF hits = {} THEN 0 ELSE CHOOSE i \in hits : \A j \in hits : i <= j

\* s.rfind(c): greatest position where c occurs, 0 if none
RFind(s, c) ==
    LET hits == {i \in 1..(Len(s) - Len(c) + 1) : SubSeq(s, i, i + Len(c) - 1) = c}
    IN  IF hits = {} THEN 0 ELSE CHOOSE i \in hits : \A j \in hits : i >= j

\* s.replace(old, new) for a non-empty old: every non-overlapping occurrence,
\* scanning left to right
RECURSIVE Replace(_, _, _)
Replace(s, old, new) ==
    IF Len(s) < Len(old) THEN s
    ELSE IF SubSeq(s, 1, Len(old)) = old
         THEN new \o Replace(From(s, Len(old) + 1), old, new)
         ELSE Char(s, 1) \o Replace(From(s, 2), old, new)

\* s.lstrip(" ")
RECURSIVE LStrip(_)
LStrip(s) == IF Len(s) > 0 /\ Char(s, 1) = " " THEN LStrip(From(s, 2)) ELSE s

UpperAlpha == "ABCDEFGHIJKLMNOPQRSTUVWXYZ"
LowerAlpha == "abcdefghijklmnopqrstuvwxyz"
Digits == "0123456789"

\* s.lower()
RECURSIVE Lower(_)
Lower(s) ==
    IF s = "" THEN ""
    ELSE LET c == Char(s, 1)
             k == Find(UpperAlpha, c, 1)
         IN  (IF k = 0 THEN c ELSE Char(LowerAlpha, k)) \o Lower(From(s, 2))

----------------------------------------------------------------------------
(* urllib.parse, as called by remove_parameters_and_decode *)

scheme_chars == LowerAlpha \o UpperAlpha \o Digits \o "+-."

uses_params == {"", "ftp", "hdl", "prospero", "http", "imap", "https", "shttp",
                "rtsp", "rtsps", "rtspu", "sip", "sips", "mms", "sftp", "tel"}

\* _splitnetloc(url, 2): the netloc ends at the first of / ? # after the //
SplitNetloc(url) ==
    LET ds == {Find(url, d, 3) : d \in {"/", "?", "#"}} \ {0}
        delim == IF ds = {} THEN Len(url) + 1
                 ELSE CHOOSE i \in ds : \A j \in ds : i <= j
    IN  [netloc |-> SubSeq(url, 3, delim - 1), rest |-> From(url, delim)]

\* the bracket checks urlsplit makes on a netloc; a bracketed host must be an
\* IPv6 or IPvFuture literal, and no host of the modelled inputs is one
NetlocRaises(netloc) ==
    Contains(netloc, "[") \/ Contains(netloc, "]")

\* url.lstrip of the leading spaces, then removal of tab, CR and LF
CleanUrl(url) == Replace(Replace(Replace(LStrip(url), "\t", ""), "\r", ""), "\n", "")

\* position of the : that ends the scheme, 0 when the text before the first :
\* is not a scheme (empty, not starting with a letter, or with a character
\* outside scheme_chars)
SchemeEnd(url) ==
    LET i == Find(url, ":", 1)
    IN  IF /\ i > 1
           /\ Contains(LowerAlpha \o UpperAlpha, Char(url, 1))
           /\ \A k \in 1..(i - 1) : Contains(scheme_chars, Char(url, k))
        THEN i ELSE 0

\* if '?' in url: url, query = url.split('?', 1)
SplitQuery(scheme, netloc, raised, fragment, url) ==
    LET q == Find(url, "?", 1)
    IN  [raised |-> raised, scheme |-> scheme, netloc |-> netloc,
         path |-> IF q > 0 THEN SubSeq(url, 1, q - 1) ELSE url,
         query |-> IF q > 0 THEN From(url, q + 1) ELSE "",
         fragment |-> fragment]

\* if '#' in url: url, fragment = url.split('#', 1)
SplitFragment(scheme, netloc, raised, url) ==
    LET h == Find(url, "#", 1)
    IN  IF h > 0
        THEN SplitQuery(scheme, netloc, raised, From(url, h + 1), SubSeq(url, 1, h - 1))
        ELSE SplitQuery(scheme, netloc, raised, "", url)

\* if url[:2] == '//': netloc, url = _splitnetloc(url, 2), and its checks
SplitAuthority(scheme, url) ==
    IF SubSeq(url, 1, 2) = "//"
    THEN LET n == SplitNetloc(url)
         IN  SplitFragment(scheme, n.netloc, NetlocRaises(n.netloc), n.rest)
    ELSE SplitFragment(scheme, "", FALSE, url)

\* the steps of urlsplit on the cleaned url
SplitScheme(url) ==
    LET i == SchemeEnd(url)
    IN  IF i > 0
        THEN SplitAuthority(Lower(SubSeq(url, 1, i - 1)), From(url, i + 1))
        ELSE SplitAuthority("", url)

\* urlsplit(url): scheme, netloc, path, query, fragment; raised when it raises
\* ValueError
urlsplit(url) == SplitScheme(CleanUrl(url))

\* _splitparams(url): cut the parameters of the last path segment
SplitParams(url) ==
    LET i == IF Contains(url, "/")
             THEN Find(url, ";", RFind(url, "/"))
             ELSE Find(url, ";", 1)
    IN  IF i = 0 THEN url ELSE SubSeq(url, 1, i - 1)

\* urlparse(url).path, with raised set when urlparse raises ValueError
urlparse(url) ==
    LET s == urlsplit(url)
    IN  [raised |-> s.raised,
         scheme |-> s.scheme, netloc |-> s.netloc, query |-> s.query,
         path |-> IF s.scheme \in uses_params /\ Contains(s.path, ";")
                  THEN SplitParams(s.path) ELSE s.path]

HexDigits == "0123456789ABCDEFabcdef"

HexVal(c) ==
    LET k == Find(HexDigits, c, 1)
    IN  IF k <= 16 THEN k - 1 ELSE k - 7

\* the printable ASCII characters: codes 32..95, then 97..126
PrintableLow == " !\"#$%&'()*+,-./0123456789:;<=>?@ABCDEFGHIJKLMNOPQRSTUVWXYZ[\\]^_"
PrintableHigh == "abcdefghijklmnopqrstuvwxyz{|}~"

\* the character a decoded byte stands for; the other bytes (control
\* characters, the backquote, UTF-8 sequences) are outside the modelled alphabet
Chr(code) ==
    IF code \in 32..95 THEN Char(PrintableLow, code - 31)
    ELSE IF code \in 97..126 THEN Char(PrintableHigh, code - 96)
    ELSE "<byte>"

\* unquote(string): each %xx with two hex digits becomes its character, any
\* other % is kept
RECURSIVE unquote(_)
unquote(s) ==
    IF s = "" THEN ""
    ELSE IF Char(s, 1) = "%"
         THEN IF /\ Len(s) >= 3
                 /\ Contains(HexDigits, Char(s, 2))
                 /\ Contains(HexDigits, Char(s, 3))
              THEN Chr(16 * HexVal(Char(s, 2)) + HexVal(Char(s, 3)))
                       \o unquote(From(s, 4))
              ELSE "%" \o unquote(From(s, 2))
         ELSE Char(s, 1) \o unquote(From(s, 2))

----------------------------------------------------------------------------
(* Inputs: command lines, network answers, documents *)

WRAPPER == "//duckduckgo.com/l/?uddg="

valid_websites == <<"reddit.com", "stackoverflow.com", "stackexchange.com", "medium.com">>

Anchor(cls, has_href, href, text) ==
    [class |-> cls, has_href |-> has_href, href |-> href, text |-> text]

RedditHref == "https://www.reddit.com/r/test"
ExampleHref == "https://example.com/page"
MediumHref == WRAPPER \o "https%3A%2F%2Fmedium.com%2Fpost&rut=1"
FakeHref == "https://example.com/reddit.com/fake"
BracketHref == "//[reddit.com/x"

\* the elements the multi-anchor documents are built from
ElemPool ==
    { Anchor("result__a", TRUE, RedditHref, "Reddit"),
      Anchor("result__a", TRUE, ExampleHref, "Example"),
      Anchor("result__a", TRUE, MediumHref, "Medium"),
      Anchor("result__a", TRUE, FakeHref, "Fake"),
      Anchor("result__a", TRUE, BracketHref, "Bracket"),
      Anchor("result__a", FALSE, "", "Broken"),
      Anchor("result__snippet", FALSE, "", "Snippet"),
      Anchor("result__snippet", TRUE, RedditHref, "Reddit") }

Docs == UNION {[1..n -> ElemPool] : n \in 0..MaxAnchors}

\* hrefs put together from a head, an origin, a path and a tail
Heads == {"", WRAPPER}
Origins == {"https://reddit.com", "https%3A%2F%2Freddit.com", "https://stackoverflow.com",
            "HTTPS://medium.com", "https://example.com", "reddit.com:80"}
Paths == {"", "/r/test", "%2Fr%2Ftest", "/questions/123", "/a" \o WRAPPER \o "b",
          "/a%20b;p=1", "/%zz%2f"}
Tails == {"", "?ref=1", "%3Fref%3D1", "&rut=x", "#top"}

HrefSpace == {h \o o \o p \o t : h \in Heads, o \in Origins, p \in Paths, t \in Tails}

HrefDocs == {<<Anchor("result__a", TRUE, href, "T")>> : href \in HrefSpace}

Bodies == Docs \cup HrefDocs

StatusCodes == {200, 404, 503}

Servers ==
    {[outcome |-> "error", status |-> 0, body |-> <<>>]}
    \cup [outcome : {"ok"}, status : StatusCodes, body : Bodies]

Argvs == {<<>>, <<"tla plus">>, <<"-h">>, <<"tla", "plus">>}

----------------------------------------------------------------------------
(* The functions of browser.py *)

\* variant of parse_args: the positional is optional (nargs='?'), a missing
\* search term becomes the empty string
parse_args_optional(args) ==
    IF \E i \in 1..Len(args) : args[i] \in {"-h", "--help"}
    THEN [outcome |-> "help", search_term |-> ""]
    ELSE IF Len(args) = 0
         THEN [outcome |-> "ok", search_term |-> ""]
         ELSE IF Len(args) = 1 /\ ~StartsWith(args[1], "-")
              THEN [outcome |-> "ok", search_term |-> args[1]]
              ELSE [outcome |-> "error", search_term |-> ""]

\* parser.parse_args(): one positional search_term; -h prints the help and
\* exits 0; anything else is an error, exit status 2
parse_args(args) ==
    IF \E i \in 1..Len(args) : args[i] \in {"-h", "--help"}
    THEN [outcome |-> "help", search_term |-> ""]
    ELSE IF Len(args) = 1 /\ ~StartsWith(args[1], "-")
         THEN [outcome |-> "ok", search_term |-> args[1]]
         ELSE [outcome |-> "error", search_term |-> ""]

\* the URL search_duckduckgo requests
search_url(query) == "https://duckduckgo.com/html/?q=" \o Replace(query, " ", "+")

\* variant of any_website_in: the test is made on the host of the link
any_website_in_host(link, websites) ==
    \E k \in 1..Len(websites) : Contains(urlsplit(link).netloc, websites[k])

\* any(website in link for website in valid_websites)
any_website_in(link, websites) ==
    \E k \in 1..Len(websites) : Contains(link, websites[k])

\* soup.find_all('a', class_='result__a')
find_all(doc) == SelectSeq(doc, LAMBDA a : a.class = "result__a")

\* variant of parse_loop: results.insert(0, ...) instead of append
RECURSIVE parse_loop_prepend(_, _, _)
parse_loop_prepend(anchors, websites, acc) ==
    IF anchors = <<>> THEN [raised |-> FALSE, results |-> acc]
    ELSE LET a == Head(anchors)
         IN  IF ~a.has_href THEN [raised |-> TRUE, results |-> <<>>]
             ELSE parse_loop_prepend(Tail(anchors), websites,
                                     IF any_website_in(a.href, websites)
                                     THEN <<<<a.text, a.href>>>> \o acc ELSE acc)

\* variant of parse_loop: result.get('href'), an anchor without href is skipped
RECURSIVE parse_loop_skip_missing(_, _, _)
parse_loop_skip_missing(anchors, websites, acc) ==
    IF anchors = <<>> THEN [raised |-> FALSE, results |-> acc]
    ELSE LET a == Head(anchors)
         IN  parse_loop_skip_missing(Tail(anchors), websites,
                                     IF a.has_href /\ any_website_in(a.href, websites)
                                     THEN Append(acc, <<a.text, a.href>>) ELSE acc)

\* the loop of parse_results over the selected anchors: result['href'] raises
\* KeyError at the first anchor without an href
RECURSIVE parse_loop(_, _, _)
parse_loop(anchors, websites, acc) ==
    IF anchors = <<>> THEN [raised |-> FALSE, results |-> acc]
    ELSE LET a == Head(anchors)
         IN  IF ~a.has_href THEN [raised |-> TRUE, results |-> <<>>]
             ELSE parse_loop(Tail(anchors), websites,
                             IF any_website_in(a.href, websites)
                             THEN Append(acc, <<a.text, a.href>>) ELSE acc)

parse_results(doc, websites) == parse_loop(find_all(doc), websites, <<>>)

\* l.replace("//duckduckgo.com/l/?uddg=", "")
strip_wrapper(l) == Replace(l, WRAPPER, "")

\* remove_parameters_and_decode(url): the decoded path of urlparse(url)
remove_parameters_and_decode(url) ==
    LET parsed_url == urlparse(url)
    IN  [raised |-> parsed_url.raised, value |-> unquote(parsed_url.path)]

GREEN == "<GREEN>"
BLUE == "<BLUE>"
RESET_ALL == "<RESET>"

\* the line display_results prints for one result
format_line(title, link) ==
    GREEN \o title \o RESET_ALL \o ": " \o BLUE \o link \o RESET_ALL

NoResultsMsg == "No results found from the valid websites."

HelpText == "usage: browser.py [-h] search_term"

\* variant of truthy: a list of one result counts as empty
truthy_more_than_one(list) == Len(list) > 1

\* if results:
truthy(list) == Len(list) > 0

----------------------------------------------------------------------------
(* main() *)

Exit(status) == pc' = "exited" /\ exit_status' = status

Init ==
    /\ pc = "parse_args"
    /\ argv \in Argvs
    /\ server \in Servers
    /\ search_term = ""
    /\ requests = <<>>
    /\ status_code = 0
    /\ html = <<>>
    /\ parsed = FALSE
    /\ results = <<>>
    /\ idx = 0
    /\ urlparse_args = <<>>
    /\ stdout = <<>>
    /\ exit_status = -1

\* args = parser.parse_args(); search_term = args.search_term
ParseArgs ==
    /\ pc = "parse_args"
    /\ LET r == parse_args(argv)
       IN  CASE r.outcome = "ok" ->
                  /\ search_term' = r.search_term
                  /\ pc' = "search"
                  /\ UNCHANGED <<stdout, exit_status>>
             [] r.outcome = "help" ->
                  /\ stdout' = Append(stdout, HelpText)
                  /\ Exit(0)
                  /\ UNCHANGED search_term
             [] r.outcome = "error" ->
                  /\ Exit(2)
                  /\ UNCHANGED <<search_term, stdout>>
    /\ UNCHANGED <<argv, server, requests, status_code, html, parsed, results,
                   idx, urlparse_args>>

\* variant of search_duckduckgo: a failed GET is tried once more
search_duckduckgo_retry ==
    /\ pc = "search"
    /\ requests' = Append(requests, search_url(search_term))
    /\ IF server.outcome = "error"
       THEN /\ IF Len(requests) >= 1 THEN Exit(1) ELSE UNCHANGED <<pc, exit_status>>
            /\ UNCHANGED <<status_code, html>>
       ELSE /\ status_code' = server.status
            /\ html' = server.body
            /\ pc' = "parse"
            /\ UNCHANGED exit_status
    /\ UNCHANGED <<argv, server, search_term, parsed, results, idx,
                   urlparse_args, stdout>>

\* variant of search_duckduckgo: response.raise_for_status() after the GET
search_duckduckgo_raise_for_status ==
    /\ pc = "search"
    /\ requests' = Append(requests, search_url(search_term))
    /\ IF server.outcome = "error"
       THEN /\ Exit(1)
            /\ UNCHANGED <<status_code, html>>
       ELSE /\ status_code' = server.status
            /\ IF server.status >= 400
               THEN Exit(1) /\ UNCHANGED html
               ELSE html' = server.body /\ pc' = "parse" /\ UNCHANGED exit_status
    /\ UNCHANGED <<argv, server, search_term, parsed, results, idx,
                   urlparse_args, stdout>>

\* html = search_duckduckgo(search_term): one requests.get, whose exception
\* nothing catches
search_duckduckgo ==
    /\ pc = "search"
    /\ requests' = Append(requests, search_url(search_term))
    /\ IF server.outcome = "error"
       THEN /\ Exit(1)
            /\ UNCHANGED <<status_code, html>>
       ELSE /\ status_code' = server.status
            /\ html' = server.body
            /\ pc' = "parse"
            /\ UNCHANGED exit_status
    /\ UNCHANGED <<argv, server, search_term, parsed, results, idx,
                   urlparse_args, stdout>>

\* results = parse_results(html, valid_websites)
ParseResults ==
    /\ pc = "parse"
    /\ parsed' = TRUE
    /\ LET r == parse_results(html, valid_websites)
       IN  IF r.raised
           THEN /\ Exit(1)
                /\ UNCHANGED results
           ELSE /\ results' = r.results
                /\ pc' = "branch"
                /\ UNCHANGED exit_status
    /\ UNCHANGED <<argv, server, search_term, requests, status_code, html,
                   idx, urlparse_args, stdout>>

\* if results: display_results(results)
EnterDisplay ==
    /\ pc = "branch"
    /\ truthy(results)
    /\ pc' = "display"
    /\ idx' = 0
    /\ UNCHANGED <<argv, server, search_term, requests, status_code, html,
                   parsed, results, urlparse_args, stdout, exit_status>>

\* else: print("No results found from the valid websites.")
PrintNoResults ==
    /\ pc = "branch"
    /\ ~truthy(results)
    /\ stdout' = Append(stdout, NoResultsMsg)
    /\ Exit(0)
    /\ UNCHANGED <<argv, server, search_term, requests, status_code, html,
                   parsed, results, idx, urlparse_args>>

\* one iteration of the loop of display_results
DisplayStep ==
    /\ pc = "display"
    /\ idx < Len(results)
    /\ LET title == results[idx + 1][1]
           l == results[idx + 1][2]
           arg == strip_wrapper(l)
           link == remove_parameters_and_decode(arg)
       IN  /\ urlparse_args' = Append(urlparse_args, arg)
           /\ IF link.raised
              THEN /\ Exit(1)
                   /\ UNCHANGED <<idx, stdout>>
              ELSE /\ stdout' = Append(stdout, format_line(title, link.value))
                   /\ idx' = idx + 1
                   /\ UNCHANGED <<pc, exit_status>>
    /\ UNCHANGED <<argv, server, search_term, requests, status_code, html,
                   parsed, results>>

\* display_results and main return
DisplayReturn ==
    /\ pc = "display"
    /\ idx = Len(results)
    /\ Exit(0)
    /\ UNCHANGED <<argv, server, search_term, requests, status_code, html,
                   parsed, results, idx, urlparse_args, stdout>>

Next ==
    \/ ParseArgs
    \/ search_duckduckgo
    \/ ParseResults
    \/ EnterDisplay
    \/ PrintNoResults
    \/ DisplayStep
    \/ DisplayReturn

Spec == Init /\ [][Next]_vars

----------------------------------------------------------------------------
(* Vocabulary of the properties *)

\* w occurs in h: h is some text, then w, then some text
Occurs(w, h) ==
    \E i \in 0..Len(h) :
        /\ i + Len(w) <= Len(h)
        /\ SubSeq(h, 1, i) \o w \o SubSeq(h, i + Len(w) + 1, Len(h)) = h

AllowList == {"reddit.com", "stackoverflow.com", "stackexchange.com", "medium.com"}

AllowListed(h) == \E w \in AllowList : Occurs(w, h)

\* the document has an organic-result anchor without href
HasBrokenAnchor(doc) ==
    \E i \in 1..Len(doc) : doc[i].class = "result__a" /\ ~doc[i].has_href

\* parse_results has returned a list to main
Returned == pc \in {"branch", "display"} \/ (pc = "exited" /\ idx > 0) \/
            (pc = "exited" /\ parsed /\ ~HasBrokenAnchor(html))

\* line is a result line for the given title
IsLineOf(line, title) ==
    /\ StartsWith(line, GREEN \o title \o RESET_ALL \o ": " \o BLUE)
    /\ SubSeq(line, Len(line) - Len(RESET_ALL) + 1, Len(line)) = RESET_ALL

\* the command line is rejected by the argument parser
ArgsRejected == Len(argv) # 1 /\ \A i \in 1..Len(argv) : argv[i] # "-h"

ArgsAccepted == Len(argv) = 1 /\ argv[1] # "-h"

----------------------------------------------------------------------------
(* Properties *)

\* C1: in a run that ends normally after filtering, n >= 1 filtered results
\* give exactly n result lines, one per result, and never the no-results
\* message; 0 filtered results give exactly the no-results line, exit status 0.
C1_OutputFollowsFiltered ==
    /\ (pc = "exited" /\ exit_status = 0 /\ Returned) =>
          /\ Len(results) >= 1 =>
                /\ Len(stdout) = Len(results)
                /\ \A k \in 1..Len(stdout) :
                      /\ stdout[k] # NoResultsMsg
                      /\ IsLineOf(stdout[k], results[k][1])
          /\ Len(results) = 0 => stdout = <<NoResultsMsg>>
    /\ (pc = "exited" /\ Returned /\ Len(results) = 0) =>
          exit_status = 0 /\ stdout = <<NoResultsMsg>>

C1_Witness ==
    /\ pc = "exited" /\ exit_status = 0
    /\ Len(results) = 2 /\ Len(stdout) = 2

\* C2: once the filter has run, an extracted (title, href) pair is in the
\* filtered list exactly when its href contains an allow-list entry as a
\* substring, wherever it stands in the href.
C2_FilterIsSubstringTest ==
    (pc \in {"branch", "display"}) =>
        \A i \in 1..Len(html) :
            html[i].class = "result__a" =>
                ((\E k \in 1..Len(results) : results[k] = <<html[i].text, html[i].href>>)
                    <=> AllowListed(html[i].href))

C2_Witness ==
    /\ pc = "branch"
    /\ \E k \in 1..Len(results) : results[k][2] = "https://example.com/reddit.com/fake"
    /\ \E i \in 1..Len(html) : html[i].href = ExampleHref

\* C3: the filtered list is an order-preserving subsequence of the extracted
\* anchors, without duplication, and the lines are printed front to back;
\* anchors for reddit, example, medium give two lines, reddit then medium.
C3_OrderPreserved ==
    Returned =>
        /\ \E f \in [1..Len(results) -> 1..Len(html)] :
              /\ \A k \in 1..Len(results) :
                    /\ html[f[k]].class = "result__a"
                    /\ results[k] = <<html[f[k]].text, html[f[k]].href>>
              /\ \A j, k \in 1..Len(results) : j < k => f[j] < f[k]
        /\ Len(results) >= 1 =>
              /\ Len(stdout) = idx
              /\ idx <= Len(results)
              /\ \A k \in 1..Len(stdout) : IsLineOf(stdout[k], results[k][1])
        /\ (pc = "exited" /\ Len(html) = 3
              /\ html[1].href = RedditHref /\ html[1].class = "result__a"
              /\ html[2].href = ExampleHref /\ html[2].class = "result__a"
              /\ html[3].href = MediumHref /\ html[3].class = "result__a") =>
              /\ Len(stdout) = 2
              /\ IsLineOf(stdout[1], html[1].text)
              /\ IsLineOf(stdout[2], html[3].text)

C3_Witness ==
    /\ pc = "exited" /\ Len(html) = 3 /\ Len(stdout) = 2
    /\ html[1].href = RedditHref /\ html[1].class = "result__a"
    /\ html[2].href = ExampleHref /\ html[2].class = "result__a"
    /\ html[3].href = MediumHref /\ html[3].class = "result__a"

C4Href == WRAPPER \o "https%3A%2F%2Freddit.com%2Fr%2Ftest%3Fref%3D1"

\* C4: a result whose href is the redirect prefix followed by a
\* percent-encoded URL is displayed as the decoded path of the inner URL:
\* C4Href is displayed as /r/test, and no wrapped result is displayed with
\* scheme and host or with its query parameters.
C4_WrappedShowsInnerPath ==
    Len(results) >= 1 =>
        \A k \in 1..Len(stdout) :
            /\ results[k][2] = C4Href =>
                  stdout[k] = format_line(results[k][1], "/r/test")
            /\ StartsWith(results[k][2], WRAPPER) =>
                  /\ ~Occurs("://", stdout[k])
                  /\ ~Occurs("?", stdout[k])

\* h has the shape scheme://host/path[?query]: letters, then ://, a host
\* without delimiters, a path starting with /, no parameters and no fragment
IsDirectAbsolute(h) ==
    LET i == Find(h, "://", 1)
        rest == From(h, i + 3)
        s == Find(rest, "/", 1)
    IN  /\ ~StartsWith(h, WRAPPER)
        /\ i > 1
        /\ \A k \in 1..(i - 1) : Occurs(Char(h, k), LowerAlpha \o UpperAlpha)
        /\ s > 1
        /\ ~Occurs("?", SubSeq(rest, 1, s - 1))
        /\ ~Occurs("[", SubSeq(rest, 1, s - 1))
        /\ ~Occurs("#", h)
        /\ ~Occurs(";", h)

\* the path of scheme://host/path[?query]: from the first / after the host
\* up to the first ? after it
PathOfAbsolute(h) ==
    LET rest == From(h, Find(h, "://", 1) + 3)
        tail == From(rest, Find(rest, "/", 1))
        q == Find(tail, "?", 1)
    IN  IF q = 0 THEN tail ELSE SubSeq(tail, 1, q - 1)

\* C5: a result whose href is a direct absolute URL, not wrapped by the
\* redirect prefix, is displayed as the percent-decoded path of that URL;
\* https://stackoverflow.com/questions/123 is displayed as /questions/123.
C5_DirectShowsDecodedPath ==
    Len(results) >= 1 =>
        \A k \in 1..Len(stdout) :
            /\ results[k][2] = "https://stackoverflow.com/questions/123" =>
                  stdout[k] = format_line(results[k][1], "/questions/123")
            /\ IsDirectAbsolute(results[k][2]) =>
                  stdout[k] = format_line(results[k][1],
                                          unquote(PathOfAbsolute(results[k][2])))

\* C6: when the argument parser rejects the command line, the process exits
\* with a non-zero status at once: no HTTP request is issued, no HTML is
\* parsed and nothing is written to standard output; and no request is ever
\* issued before the arguments have been parsed and accepted.
C6_ArgErrorBeforeNetwork ==
    /\ ArgsRejected =>
          /\ requests = <<>> /\ ~parsed /\ html = <<>> /\ stdout = <<>>
          /\ pc \in {"parse_args", "exited"}
          /\ pc = "exited" => exit_status \notin {0, -1}
    /\ requests # <<>> => (pc # "parse_args" /\ ArgsAccepted)

C6_Witness ==
    /\ argv = <<>> /\ pc = "exited" /\ exit_status = 2
    /\ server.outcome = "ok" /\ Len(server.body) = 3

\* C7: at most one HTTP GET is issued, exactly one once accepted arguments
\* have been acted on, and never a second one after a failure; when the GET
\* fails at transport level the process ends with a non-zero status, nothing
\* parsed and nothing written to standard output.
C7_OneRequestNoRetry ==
    /\ Len(requests) <= 1
    /\ (ArgsAccepted /\ pc \notin {"parse_args", "search"}) => Len(requests) = 1
    /\ (server.outcome = "error" /\ requests # <<>>) =>
          /\ pc = "exited"
          /\ exit_status \notin {0, -1}
          /\ ~parsed
          /\ stdout = <<>>

C7_Witness ==
    /\ server.outcome = "error" /\ pc = "exited"
    /\ Len(requests) = 1 /\ exit_status = 1

\* C8: whatever the status code of the response, the returned body is what
\* the extractor is given, and the run goes on to result lines or to the
\* no-results message; a status outside 2xx never ends the run by itself.
C8_StatusIgnored ==
    status_code # 0 =>
        /\ html = server.body
        /\ pc # "search"
        /\ pc = "exited" => parsed
        /\ (pc = "exited" /\ ~HasBrokenAnchor(server.body)) =>
              /\ Returned
              /\ exit_status = 0 =>
                    \/ stdout = <<NoResultsMsg>> /\ results = <<>>
                    \/ Len(stdout) = Len(results) /\ Len(results) >= 1
                          /\ \A k \in 1..Len(stdout) : stdout[k] # NoResultsMsg

C8_Witness ==
    /\ status_code = 404 /\ pc = "exited" /\ exit_status = 0
    /\ Len(stdout) = 1 /\ stdout[1] # NoResultsMsg

\* C9: when an organic-result anchor of the received document has no href,
\* the run ends with a non-zero status and standard output stays empty, also
\* when anchors before it would have been results.
C9_MissingHrefAborts ==
    (status_code # 0 /\ HasBrokenAnchor(html)) =>
        /\ stdout = <<>>
        /\ pc \in {"parse", "exited"}
        /\ pc = "exited" => exit_status \notin {0, -1}

C9_Witness ==
    /\ pc = "exited" /\ Len(html) = 2
    /\ html[1].class = "result__a" /\ html[1].href = RedditHref
    /\ html[2].class = "result__a" /\ ~html[2].has_href

\* C10: the string handed to URL parsing is the href unchanged when the href
\* does not start with the redirect prefix, and the href without that one
\* leading occurrence when it does.
C10_OnlyLeadingPrefixRemoved ==
    \A k \in 1..Len(urlparse_args) :
        LET l == results[k][2]
        IN  IF StartsWith(l, WRAPPER)
            THEN urlparse_args[k] = From(l, Len(WRAPPER) + 1)
            ELSE urlparse_args[k] = l

====
